---- MODULE Spec2Model ----
(***************************************************************************)
(* State-machine model of the sidebar widgets (SidebarProvider, useSidebar,*)
(* DesktopSidebar, MobileSidebar, SidebarLink) of                          *)
(* src/components/ui/sidebar.tsx and of the ScrollReveal wrapper.          *)
(*                                                                         *)
(* Time is counted in milliseconds.  A timer created by setTimeout is a    *)
(* record that carries the milliseconds left until it is due and the       *)
(* values its callback closed over.  The event loop runs one handler at a  *)
(* time: every action below is one handler (with the re-render and the     *)
(* effects it causes), one timer callback, or the passing of time.         *)
(***************************************************************************)
EXTENDS Integers, Sequences, FiniteSets

\* ---------------------------------------------------------------- bounds
\* At most this many collapse timers are pending at once.
MaxTimers == 2
\* At most this many clicks on the menu button are counted per mount.
MaxClicks == 3
\* Number of ScrollReveal wrappers on the page.
NumReveals == 2
\* Cap of the per-mount count of controls.start("visible") calls.
MaxStarts == 2

\* ------------------------------------------------------- program constants
CollapseDelay == 120
WidthExpanded == 260
WidthCollapsed == 80
OpacityShown == 1
OpacityHidden == 0
LabelXShown == 0
LabelXHidden == -12
\* threshold: 0.08 of the element's area, in percent
Threshold == 8

\* Amounts by which time advances in one step.
TickSteps == {CollapseDelay \div 3, CollapseDelay}
\* Visible share of a ScrollReveal element, in percent.
Ratios == {0, 5, 8, 50, 100}
Instances == 1..NumReveals

VARIABLES
    animate,           \* the provider's animate prop (absent prop = TRUE)
    hasOpenProp,       \* the parent passes the open prop
    hasSetOpenProp,    \* the parent passes the setOpen prop
    parentOpen,        \* the parent's own state: value of the open prop, target of the setOpen prop
    openState,         \* SidebarProvider's useState(false)
    desktopMounted,    \* a DesktopSidebar is mounted under the provider
    hovering,          \* the pointer is over the DesktopSidebar
    timers,            \* pending setTimeout timers, oldest first
    hoverTimeout,      \* hoverTimeout.current: "undefined", or "handle" of the timer this mount created last
    quietSinceLeave,   \* history: the last pointer-leave happened with animate and open, nothing but time and timers since
    mobileMounted,     \* a MobileSidebar is mounted under the provider
    menuOpen,          \* MobileSidebar's useState(false)
    drawer,            \* the drawer under AnimatePresence: "absent", "present", "exiting"
    clicks,            \* history: clicks on the menu button since the mount
    menuOpenAtUnmount, \* history: "none", or the value of menuOpen at the last unmount
    called,            \* history: the setOpen call made by the last step: "none", "true", "false"
    hookResult,        \* history: the outcome of the useSidebar call of the last step
    reveal             \* the ScrollReveal wrappers

sidebarVars == <<animate, hasOpenProp, hasSetOpenProp, parentOpen, openState,
                 desktopMounted, hovering, timers, hoverTimeout, quietSinceLeave,
                 mobileMounted, menuOpen, drawer, clicks, menuOpenAtUnmount,
                 called, hookResult>>
vars == <<sidebarVars, reveal>>

\* ------------------------------------------------------- SidebarProvider
\* const open = openProp ?? openState
Open == IF hasOpenProp THEN parentOpen ELSE openState

\* const setOpen = setOpenProp ?? setOpenState
SetOpenTarget == IF hasSetOpenProp THEN "setOpenProp" ELSE "setOpenState"

\* A call setOpen(v) through the context.
SetOpen(v) ==
    /\ called' = (IF v THEN "true" ELSE "false")
    /\ IF SetOpenTarget = "setOpenProp"
       THEN parentOpen' = v /\ UNCHANGED openState
       ELSE openState' = v /\ UNCHANGED parentOpen

NoSetOpen == called' = "none" /\ UNCHANGED <<parentOpen, openState>>

\* value={{ open, setOpen, animate }}
ProviderValue == [open |-> Open, setOpen |-> SetOpenTarget, animate |-> animate]

\* createContext(undefined): what useContext sees inside and outside a provider.
SidebarContext(inside) ==
    IF inside THEN [defined |-> TRUE, value |-> ProviderValue]
              ELSE [defined |-> FALSE]

ReturnDefaultContext(context) ==
    IF context.defined
    THEN [threw |-> FALSE, value |-> context.value]
    ELSE [threw |-> FALSE, value |-> [open |-> FALSE, setOpen |-> "noop", animate |-> TRUE]]

\* useSidebar: throws when the context is undefined, returns it otherwise.
useSidebar(context) ==
    IF ~context.defined
    THEN [threw |-> TRUE, message |-> "useSidebar must be used inside SidebarProvider"]
    ELSE [threw |-> FALSE, value |-> context.value]

\* The outcome of a step that calls useSidebar, and of one that does not.
HookCall(inside) == [kind |-> "call", inside |-> inside, result |-> useSidebar(SidebarContext(inside))]
NoHook == [kind |-> "none"]

\* -------------------------------------------------------- DesktopSidebar
\* style={{ width: animate ? (open ? 260 : 80) : 260 }}
WidthIgnoringAnimate == IF Open THEN WidthExpanded ELSE WidthCollapsed

Width == IF animate THEN (IF Open THEN WidthExpanded ELSE WidthCollapsed) ELSE WidthExpanded

\* setTimeout(() => animate && setOpen(false), 120): the timer hover-leave creates.
\* superseded is history: a pointer-enter came while the timer was not yet due.
NewTimer == [remaining |-> CollapseDelay, animate |-> animate, superseded |-> FALSE]

\* What pointer-enter does to the pending timers: nothing (it calls no clearTimeout);
\* the history field records which timers the enter came in time for.
TimersAfterEnter ==
    [k \in 1..Len(timers) |->
        [timers[k] EXCEPT !.superseded = @ \/ timers[k].remaining > 0]]

\* What unmounting does to the pending timers: nothing (the component has no cleanup).
TimersAfterUnmount == timers

\* A DesktopSidebar is rendered, inside or outside the provider, under the pointer or not.
MountDesktop(inside, under) ==
    /\ ~desktopMounted
    /\ hookResult' = HookCall(inside)
    /\ IF hookResult'.result.threw
       THEN UNCHANGED <<desktopMounted, hovering, hoverTimeout>>
       ELSE /\ desktopMounted' = TRUE
            /\ hovering' = under
            /\ hoverTimeout' = "undefined"
    /\ NoSetOpen
    /\ quietSinceLeave' = FALSE
    /\ UNCHANGED <<animate, hasOpenProp, hasSetOpenProp, timers,
                   mobileMounted, menuOpen, drawer, clicks, menuOpenAtUnmount, reveal>>

UnmountDesktop ==
    /\ desktopMounted
    /\ desktopMounted' = FALSE
    /\ hovering' = FALSE
    /\ timers' = TimersAfterUnmount
    /\ NoSetOpen
    /\ hookResult' = NoHook
    /\ quietSinceLeave' = FALSE
    /\ UNCHANGED <<animate, hasOpenProp, hasSetOpenProp, hoverTimeout,
                   mobileMounted, menuOpen, drawer, clicks, menuOpenAtUnmount, reveal>>

\* onMouseEnter={() => animate && setOpen(true)}
OnMouseEnter == IF animate THEN SetOpen(TRUE) ELSE NoSetOpen

TimerCallbackUnguarded(t) == SetOpen(FALSE)

\* The callback of a collapse timer: () => animate && setOpen(false)
TimerCallback(t) == IF t.animate THEN SetOpen(FALSE) ELSE NoSetOpen

\* Pointer-enter on a mounted DesktopSidebar.
MouseEnter ==
    /\ desktopMounted /\ ~hovering
    /\ hovering' = TRUE
    /\ OnMouseEnter
    /\ timers' = TimersAfterEnter
    /\ hookResult' = NoHook
    /\ quietSinceLeave' = FALSE
    /\ UNCHANGED <<animate, hasOpenProp, hasSetOpenProp, desktopMounted, hoverTimeout,
                   mobileMounted, menuOpen, drawer, clicks, menuOpenAtUnmount, reveal>>

\* onMouseLeave={() => (hoverTimeout.current = setTimeout(..., 120))}
MouseLeave ==
    /\ desktopMounted /\ hovering
    /\ Len(timers) < MaxTimers
    /\ hovering' = FALSE
    /\ timers' = Append(timers, NewTimer)
    /\ hoverTimeout' = "handle"
    /\ NoSetOpen
    /\ hookResult' = NoHook
    /\ quietSinceLeave' = (animate /\ Open)
    /\ UNCHANGED <<animate, hasOpenProp, hasSetOpenProp, desktopMounted,
                   mobileMounted, menuOpen, drawer, clicks, menuOpenAtUnmount, reveal>>

\* d milliseconds pass; no timer is overdue.
Tick(d) ==
    /\ timers # <<>>
    /\ \A k \in 1..Len(timers) : timers[k].remaining >= d
    /\ timers' = [k \in 1..Len(timers) |-> [timers[k] EXCEPT !.remaining = @ - d]]
    /\ NoSetOpen
    /\ hookResult' = NoHook
    /\ UNCHANGED <<animate, hasOpenProp, hasSetOpenProp, desktopMounted, hovering,
                   hoverTimeout, quietSinceLeave,
                   mobileMounted, menuOpen, drawer, clicks, menuOpenAtUnmount, reveal>>

\* The oldest timer is due and its callback runs.
TimerFires ==
    /\ timers # <<>>
    /\ Head(timers).remaining = 0
    /\ TimerCallback(Head(timers))
    /\ timers' = Tail(timers)
    /\ hookResult' = NoHook
    /\ UNCHANGED <<animate, hasOpenProp, hasSetOpenProp, desktopMounted, hovering,
                   hoverTimeout, quietSinceLeave,
                   mobileMounted, menuOpen, drawer, clicks, menuOpenAtUnmount, reveal>>

\* --------------------------------------------------------- MobileSidebar
MenuOpenKept == menuOpen

\* const [menuOpen, setMenuOpen] = useState(false): the value a mount starts with.
MenuOpenInitial == FALSE

MenuAlwaysOpened(m) == TRUE

\* onClick={() => setMenuOpen(!menuOpen)}
ToggleMenu(m) == ~m

\* <AnimatePresence>{menuOpen && (<motion.div ... exit={...}>)}</AnimatePresence>
\* after a render with menuOpen = m: the drawer is rendered while m holds; when
\* m turns false AnimatePresence keeps the drawer until its exit animation
\* (duration 0.3) completes.
DrawerAfterRender(m, d) ==
    IF m THEN "present" ELSE IF d = "present" THEN "exiting" ELSE d

\* The drawer is in the rendered tree.
DrawerRendered == drawer # "absent"

\* A MobileSidebar is rendered, inside or outside the provider; once it is
\* mounted its effect runs: useEffect(() => { setOpen(false) }, [setOpen]).
MountMobile(inside) ==
    /\ ~mobileMounted
    /\ hookResult' = HookCall(inside)
    /\ IF hookResult'.result.threw
       THEN NoSetOpen /\ UNCHANGED <<mobileMounted, menuOpen, drawer, clicks>>
       ELSE /\ mobileMounted' = TRUE
            /\ menuOpen' = MenuOpenInitial
            /\ drawer' = DrawerAfterRender(menuOpen', "absent")
            /\ clicks' = 0
            /\ SetOpen(FALSE)
    /\ quietSinceLeave' = FALSE
    /\ UNCHANGED <<animate, hasOpenProp, hasSetOpenProp, desktopMounted, hovering,
                   timers, hoverTimeout, menuOpenAtUnmount, reveal>>

\* Unmounting discards the component's state; the record of it is history.
UnmountMobile ==
    /\ mobileMounted
    /\ mobileMounted' = FALSE
    /\ menuOpenAtUnmount' = (IF menuOpen THEN "true" ELSE "false")
    /\ drawer' = "absent"
    /\ NoSetOpen
    /\ hookResult' = NoHook
    /\ UNCHANGED <<animate, hasOpenProp, hasSetOpenProp, desktopMounted, hovering,
                   timers, hoverTimeout, quietSinceLeave, menuOpen, clicks, reveal>>

ClickMenuButton ==
    /\ mobileMounted
    /\ clicks < MaxClicks
    /\ menuOpen' = ToggleMenu(menuOpen)
    /\ drawer' = DrawerAfterRender(menuOpen', drawer)
    /\ clicks' = clicks + 1
    /\ NoSetOpen
    /\ hookResult' = NoHook
    /\ UNCHANGED <<animate, hasOpenProp, hasSetOpenProp, desktopMounted, hovering,
                   timers, hoverTimeout, quietSinceLeave, mobileMounted,
                   menuOpenAtUnmount, reveal>>

\* The drawer's exit animation completes and AnimatePresence removes it.
DrawerExitComplete ==
    /\ mobileMounted
    /\ drawer = "exiting"
    /\ drawer' = "absent"
    /\ NoSetOpen
    /\ hookResult' = NoHook
    /\ UNCHANGED <<animate, hasOpenProp, hasSetOpenProp, desktopMounted, hovering,
                   timers, hoverTimeout, quietSinceLeave, mobileMounted, menuOpen,
                   clicks, menuOpenAtUnmount, reveal>>

\* ----------------------------------------------------------- SidebarLink
LabelOpacityIgnoringAnimate == IF Open THEN OpacityShown ELSE OpacityHidden

\* opacity: animate ? (open ? 1 : 0) : 1
LabelOpacity == IF animate THEN (IF Open THEN OpacityShown ELSE OpacityHidden) ELSE OpacityShown

\* x: animate ? (open ? 0 : -12) : 0
LabelX == IF animate THEN (IF Open THEN LabelXShown ELSE LabelXHidden) ELSE LabelXShown

\* A SidebarLink is rendered, inside or outside the provider.
RenderLink(inside) ==
    /\ hookResult' = HookCall(inside)
    /\ NoSetOpen
    /\ UNCHANGED <<animate, hasOpenProp, hasSetOpenProp, desktopMounted, hovering,
                   timers, hoverTimeout, quietSinceLeave, mobileMounted, menuOpen,
                   drawer, clicks, menuOpenAtUnmount, reveal>>

\* ---------------------------------------------------------- ScrollReveal
TriggerOnceOff == FALSE

\* useInView({ triggerOnce: true, threshold: 0.08 })
TriggerOnce == TRUE

\* The element counts as in view when its visible share reaches the threshold.
Intersecting(ratio) == ratio >= Threshold

\* initial="hidden", the hook's inView starts false and the element is observed.
Unmounted == [mounted |-> FALSE, ratio |-> 0, inView |-> FALSE, observing |-> FALSE,
              variant |-> "hidden", starts |-> 0]

MountReveal(i, r) ==
    /\ ~reveal[i].mounted
    /\ reveal' = [reveal EXCEPT ![i] =
                    [mounted |-> TRUE, ratio |-> r, inView |-> FALSE, observing |-> TRUE,
                     variant |-> "hidden", starts |-> 0]]
    /\ UNCHANGED sidebarVars

UnmountReveal(i) ==
    /\ reveal[i].mounted
    /\ reveal' = [reveal EXCEPT ![i] = Unmounted]
    /\ UNCHANGED sidebarVars

\* The page scrolls: the visible share of the element changes.
Scroll(i, r) ==
    /\ reveal[i].mounted
    /\ r # reveal[i].ratio
    /\ reveal' = [reveal EXCEPT ![i].ratio = r]
    /\ UNCHANGED sidebarVars

\* The variant and the count of starts after the effect
\*   useEffect(() => { if (inView) controls.start("visible") }, [inView])
\* has run for a changed inView.
AfterEffect(w, nowInView) ==
    IF nowInView
    THEN [w EXCEPT !.variant = "visible", !.starts = @ + 1]
    ELSE w

\* The observer reports that the element crossed the threshold; the hook
\* updates inView (and with triggerOnce stops observing once it is in view),
\* the component re-renders and the effect runs.
ObserverCallback(i) ==
    LET w == reveal[i]
        nowInView == Intersecting(w.ratio)
    IN  /\ w.mounted /\ w.observing
        /\ nowInView # w.inView
        /\ w.starts < MaxStarts
        /\ reveal' = [reveal EXCEPT ![i] =
                        AfterEffect([w EXCEPT !.inView = nowInView,
                                              !.observing = ~(TriggerOnce /\ nowInView)],
                                    nowInView)]
        /\ UNCHANGED sidebarVars

\* ------------------------------------------------------- specifications
Init ==
    /\ animate \in BOOLEAN
    /\ hasOpenProp \in BOOLEAN
    /\ hasSetOpenProp \in BOOLEAN
    /\ parentOpen \in BOOLEAN
    /\ openState = FALSE
    /\ desktopMounted = FALSE
    /\ hovering = FALSE
    /\ timers = <<>>
    /\ hoverTimeout = "undefined"
    /\ quietSinceLeave = FALSE
    /\ mobileMounted = FALSE
    /\ menuOpen = FALSE
    /\ drawer = "absent"
    /\ clicks = 0
    /\ menuOpenAtUnmount = "none"
    /\ called = "none"
    /\ hookResult = NoHook
    /\ reveal = [i \in Instances |-> Unmounted]

NextSidebar ==
    \/ \E inside \in BOOLEAN, under \in BOOLEAN : MountDesktop(inside, under)
    \/ UnmountDesktop
    \/ MouseEnter
    \/ MouseLeave
    \/ \E d \in TickSteps : Tick(d)
    \/ TimerFires
    \/ \E inside \in BOOLEAN : MountMobile(inside)
    \/ UnmountMobile
    \/ ClickMenuButton
    \/ DrawerExitComplete
    \/ \E inside \in BOOLEAN : RenderLink(inside)

NextReveal ==
    \/ \E i \in Instances, r \in Ratios : MountReveal(i, r)
    \/ \E i \in Instances : UnmountReveal(i)
    \/ \E i \in Instances, r \in Ratios : Scroll(i, r)
    \/ \E i \in Instances : ObserverCallback(i)

\* The sidebar under one provider.
Spec == Init /\ [][NextSidebar]_vars

\* The ScrollReveal wrappers of a page.
SpecReveal == Init /\ [][NextReveal]_vars

\* ---------------------------------------------------------------- claims
\* The steps of the DesktopSidebar's handlers, told by what they change.
EnterStep == desktopMounted /\ desktopMounted' /\ ~hovering /\ hovering'
LeaveStep == desktopMounted /\ desktopMounted' /\ hovering /\ ~hovering'
TimerStep == Len(timers') < Len(timers)
MobileMountStep == ~mobileMounted /\ mobileMounted'

\* C1: a pointer-enter that comes before a pending collapse timer is due
\* cancels it: the callback of such a timer (created with animate enabled)
\* never calls setOpen(false).
ReenterCancelsCollapse ==
    [][(TimerStep /\ Head(timers).animate /\ Head(timers).superseded)
          => called' = "none"]_vars

\* C2: once the DesktopSidebar is unmounted no collapse timer is pending.
UnmountClearsTimer == ~desktopMounted => timers = <<>>

\* C3: a useSidebar call outside a provider throws and returns nothing; a
\* call inside a provider does not throw and returns the provider's
\* {open, setOpen, animate} as they are when it is called.
UseSidebarContract ==
    [][hookResult'.kind = "call" =>
          IF hookResult'.inside
          THEN hookResult'.result = [threw |-> FALSE, value |-> ProviderValue]
          ELSE /\ hookResult'.result.threw
               /\ "value" \notin DOMAIN hookResult'.result]_vars

UseSidebarThrew ==
    /\ hookResult.kind = "call"
    /\ ~hookResult.inside
    /\ hookResult.result.threw
    /\ ~desktopMounted /\ ~mobileMounted

\* C4: after a pointer-leave with animate enabled and open = true, while
\* nothing but time and timer callbacks follow and the delay of that leave
\* has not elapsed, open is still true.
CollapseWaitsForDelay ==
    (desktopMounted /\ quietSinceLeave /\ timers # <<>>
        /\ timers[Len(timers)].remaining > 0) => Open

\* C5: with animate = false the width is 260 in every state.
FixedWidthWithoutAnimate == ~animate => Width = WidthExpanded

FixedWidthWhileClosed ==
    /\ ~animate /\ ~Open /\ desktopMounted /\ hovering
    /\ hoverTimeout = "handle" /\ timers # <<>>
    /\ Width = WidthExpanded

\* C6: within one mount a ScrollReveal wrapper is hidden until its first
\* controls.start("visible"), which is also its last: once visible it stays
\* visible and starts no animation again.
RevealOnce ==
    [][\A i \in Instances :
          /\ reveal'[i].starts <= 1
          /\ (reveal'[i].variant = "hidden") <=> (reveal'[i].starts = 0)
          /\ (reveal[i].mounted /\ reveal'[i].mounted /\ reveal[i].variant = "visible")
                => (reveal'[i].variant = "visible" /\ reveal'[i].starts = reveal[i].starts)]_vars

RevealedAndScrolledAway ==
    \E i \in Instances :
        /\ reveal[i].mounted /\ reveal[i].variant = "visible" /\ reveal[i].starts = 1
        /\ ~Intersecting(reveal[i].ratio) /\ ~reveal[i].observing

\* C7: the step that mounts a MobileSidebar leaves menuOpen false and the
\* drawer unrendered and calls setOpen(false), whatever the open prop is.
MobileClosedOnMount ==
    [][MobileMountStep =>
          (~menuOpen' /\ ~DrawerRendered' /\ called' = "false")]_vars

MobileMountedUnderOpenProp ==
    /\ mobileMounted /\ clicks = 0 /\ ~menuOpen /\ ~DrawerRendered /\ called = "false"
    /\ hasOpenProp /\ ~hasSetOpenProp /\ parentOpen

\* C8: while a MobileSidebar is mounted, menuOpen is true exactly when the
\* number of clicks since its mount is odd (so it is false right after any
\* mount); the drawer is rendered whenever menuOpen is true, and with
\* menuOpen false it is absent or running its exit animation, and absent
\* before the first click.
MenuToggleParity ==
    mobileMounted => /\ menuOpen <=> (clicks % 2 = 1)
                     /\ menuOpen => drawer = "present"
                     /\ ~menuOpen => drawer \in {"absent", "exiting"}
                     /\ clicks = 0 => drawer = "absent"

\* C8 as stated: menuOpen follows the parity of the clicks and the drawer is
\* rendered exactly when menuOpen is true.
DrawerRenderedIffMenuOpen ==
    mobileMounted => /\ menuOpen <=> (clicks % 2 = 1)
                     /\ DrawerRendered <=> menuOpen

ToggledTwiceAfterRemount ==
    /\ mobileMounted /\ clicks = 2 /\ ~menuOpen /\ drawer = "exiting"
    /\ menuOpenAtUnmount = "true"

\* C9: the label's target opacity is 1 and its x offset 0 exactly when the
\* width is 260, and they are 0 and -12 exactly when the width is 80.
LabelMatchesWidth ==
    /\ (LabelOpacity = OpacityShown) <=> (Width = WidthExpanded)
    /\ (LabelX = LabelXShown) <=> (Width = WidthExpanded)
    /\ (LabelOpacity = OpacityHidden) <=> (Width = WidthCollapsed)
    /\ (LabelX = LabelXHidden) <=> (Width = WidthCollapsed)

CollapsedWithHiddenLabel ==
    /\ desktopMounted /\ animate /\ called = "false" /\ timers = <<>>
    /\ hoverTimeout = "handle"
    /\ Width = WidthCollapsed /\ LabelOpacity = OpacityHidden /\ LabelX = LabelXHidden

\* C10: with animate = false no pointer-enter, pointer-leave or timer
\* callback calls setOpen or changes open; a pointer-leave still adds a timer.
NoSetOpenWithoutAnimate ==
    [][(~animate /\ (EnterStep \/ LeaveStep \/ TimerStep))
          => /\ called' = "none"
             /\ Open' = Open
             /\ LeaveStep => Len(timers') = Len(timers) + 1]_vars

TimerFiredWithoutAnimate ==
    /\ ~animate /\ desktopMounted /\ hoverTimeout = "handle"
    /\ timers = <<>> /\ called = "none"

====
